---- MODULE Spec2Model ----
(***************************************************************************)
(* State-machine model of rclcpp::Clock and rclcpp::JumpHandler            *)
(* (rclcpp/src/rclcpp/clock.cpp).                                          *)
(*                                                                         *)
(* The rcl clock (the "backend") is an external collaborator: each of its  *)
(* calls returns a status chosen nondeterministically, and it delivers     *)
(* jumps on its own thread by calling Clock::on_time_jump with the         *)
(* user_data pointer it was given at registration.                         *)
(***************************************************************************)
EXTENDS Integers, FiniteSets, Sequences, TLC

\* ---------------------------------------------------------------- bounds
MaxClocks == 2
MaxBackends == 1
MaxHandlers == 2
MaxTokenRefs == 2
MaxDelta == 1
\* registrations made in the runs that also dispatch jumps or query the clock
MaxRegistrations == 1
\* largest reading of a backend's clock
MaxTime == 2

ClockIds == 1..MaxClocks
BackendIds == 1..MaxBackends
HandlerIds == 1..MaxHandlers
\* the backend threads that deliver jumps; all but the runs about concurrent
\* dispatch use the first alone
ThreadIds == {"jump_thread", "override_thread"}
JumpThreads == {"jump_thread"}
Deltas == 0..MaxDelta
Times == 0..MaxTime

\* a null user_data pointer / no object
NullRef == 0

ClockTypes == {"RCL_ROS_TIME", "RCL_SYSTEM_TIME", "RCL_STEADY_TIME"}
RclRets == {"RCL_RET_OK", "RCL_RET_ERROR"}
Errors == {"none", "InitializationError", "TimeQueryError", "RegistrationError",
           "OverrideQueryError"}

VARIABLES
  clockState,   \* [ClockIds -> {"none", "alive", "destroyed"}]  Clock objects
  rcl_clock_,   \* [ClockIds -> BackendIds \cup {NullRef}]  Clock::rcl_clock_ (shared_ptr target)
  bState,       \* [BackendIds -> {"unalloc", "valid", "finalized"}]  rcl_clock_t instances
  bType,        \* [BackendIds -> ClockTypes]  rcl_clock_t::type
  bInitOk,      \* [BackendIds -> BOOLEAN]  rcl_clock_init returned RCL_RET_OK
  strong,       \* [BackendIds -> Nat]  use_count of the shared_ptr<rcl_clock_t>
  finiCount,    \* [BackendIds -> Nat]  calls of rcl_clock_fini on the instance
  entries,      \* [BackendIds -> SUBSET HandlerIds]  the backend's jump-callback table (user_data)
  lateCall,     \* [BackendIds -> BOOLEAN]  some rcl call reached the instance after rcl_clock_fini
  hState,       \* [HandlerIds -> {"none", "live", "freed"}]  JumpHandler allocations
  pre_callback, \* [HandlerIds -> BOOLEAN]  JumpHandler::pre_callback is non-empty
  post_callback,\* [HandlerIds -> BOOLEAN]  JumpHandler::post_callback is non-empty
  notice_threshold, \* [HandlerIds -> Deltas]  JumpHandler::notice_threshold (min_forward)
  weak_clock,   \* [HandlerIds -> BackendIds \cup {NullRef}]  the deleter's captured weak_ptr
  tokRefs,      \* [HandlerIds -> 0..MaxTokenRefs]  use_count of the JumpHandler::SharedPtr
  freeCount,    \* [HandlerIds -> Nat]  times the JumpHandler was deleted
  removeCalls,  \* [HandlerIds -> Nat]  calls of rcl_clock_remove_jump_callback for it
  dpc,          \* [HandlerIds -> {"idle", "lock", "remove", "delete", "exit", "done", "threw"}]
                \* position of the token's deleter ("threw": it let an exception escape)
  shared_clock, \* [HandlerIds -> BackendIds \cup {NullRef}]  result of weak_clock.lock()
  disp,         \* [ThreadIds -> dispatch record]  backend threads inside on_time_jump
  bTime,        \* [BackendIds -> Times]  the reading rcl_clock_get_now would give
  armed_threshold, \* [HandlerIds -> Deltas]  the threshold the backend was given for the entry
  jump,         \* the jump event the backend is delivering, and the callbacks it invoked
  last          \* outcome of the caller's latest API call

vars == <<clockState, rcl_clock_, bState, bType, bInitOk, strong, finiCount, entries,
          lateCall, hState, pre_callback, post_callback, notice_threshold, weak_clock,
          tokRefs, freeCount, removeCalls, dpc, shared_clock, disp, bTime,
          armed_threshold, jump, last>>

clockVars == <<clockState, rcl_clock_>>
backendVars == <<bState, bType, bInitOk, strong, finiCount, entries, lateCall>>
\* the backend's side: its time, the thresholds it was given, the jump it delivers
sourceVars == <<bTime, armed_threshold, jump>>
handlerVars == <<hState, pre_callback, post_callback, notice_threshold, weak_clock,
                 tokRefs, freeCount, removeCalls, dpc, shared_clock>>

\* ---------------------------------------------------------------- helpers
Min(S) == CHOOSE x \in S : \A y \in S : x <= y

\* a backend thread's call of on_time_jump: its arguments (h is user_data), the
\* instance b that makes the call, whether the deleter of h had finished when the
\* call began (late), whether the call belongs to the jump event in progress (event),
\* and once it returned the handler whose callbacks it used (target), the callbacks it
\* invoked and the delta it passed to the post-callback
IdleDispatch == [pc |-> "idle", h |-> NullRef, b |-> NullRef, before |-> FALSE,
                 delta |-> 0, late |-> FALSE, event |-> FALSE, target |-> NullRef,
                 invoked |-> {}, arg |-> 0]

\* a jump event of backend b: the handlers armed when it began (start), those the
\* backend decided to call before the jump (told), the entries it still has to call
\* in the present phase (todo), and per handler the callbacks invoked for this
\* event, in order, each with the delta it was handed
IdleJump == [phase |-> "idle", b |-> NullRef, delta |-> 0, start |-> {}, told |-> {},
             todo |-> {}, log |-> [h \in HandlerIds |-> <<>>]]

\* outcome of the latest API call that can throw: the error thrown ("none" when it
\* returned) and what it returned: a token (h), a clock type, a flag; asked/bflag:
\* whether the backend's override flag was queried and what the backend answered;
\* valid: what rcl_clock_valid answered; time: the nanoseconds of the Time returned,
\* read from instance b
NoCall == [op |-> "none", err |-> "none", h |-> NullRef,
           type |-> "none", flag |-> FALSE, asked |-> FALSE, bflag |-> FALSE,
           valid |-> FALSE, time |-> 0, b |-> NullRef]

Call(op, err) == [NoCall EXCEPT !.op = op, !.err = err]

\* Clocks aliasing backend b
ClocksOf(b) == {c \in ClockIds : clockState[c] = "alive" /\ rcl_clock_[c] = b}

\* Deleters that currently hold a locked shared_ptr to backend b
LocksOf(b) == {h \in HandlerIds : shared_clock[h] = b}

\* every rcl call notes whether the instance it reaches was already finalized
Reach(b) == [lateCall EXCEPT ![b] = lateCall[b] \/ bState[b] = "finalized"]

Init ==
  /\ clockState = [c \in ClockIds |-> "none"]
  /\ rcl_clock_ = [c \in ClockIds |-> NullRef]
  /\ bState = [b \in BackendIds |-> "unalloc"]
  /\ bType = [b \in BackendIds |-> "RCL_ROS_TIME"]
  /\ bInitOk = [b \in BackendIds |-> FALSE]
  /\ strong = [b \in BackendIds |-> 0]
  /\ finiCount = [b \in BackendIds |-> 0]
  /\ entries = [b \in BackendIds |-> {}]
  /\ lateCall = [b \in BackendIds |-> FALSE]
  /\ hState = [h \in HandlerIds |-> "none"]
  /\ pre_callback = [h \in HandlerIds |-> FALSE]
  /\ post_callback = [h \in HandlerIds |-> FALSE]
  /\ notice_threshold = [h \in HandlerIds |-> 0]
  /\ weak_clock = [h \in HandlerIds |-> NullRef]
  /\ tokRefs = [h \in HandlerIds |-> 0]
  /\ freeCount = [h \in HandlerIds |-> 0]
  /\ removeCalls = [h \in HandlerIds |-> 0]
  /\ dpc = [h \in HandlerIds |-> "idle"]
  /\ shared_clock = [h \in HandlerIds |-> NullRef]
  /\ disp = [t \in ThreadIds |-> IdleDispatch]
  /\ bTime = [b \in BackendIds |-> 0]
  /\ armed_threshold = [h \in HandlerIds |-> 0]
  /\ jump = IdleJump
  /\ last = NoCall

\* ---------------------------------------------------------------- Clock
\* rcl_clock_deleter: rcl_clock_fini (a failure is only logged), then delete.
\* rcl_clock_fini drops the instance's jump-callback table.
rcl_clock_deleter(b) ==
  /\ finiCount' = [finiCount EXCEPT ![b] = @ + 1]
  /\ bState' = [bState EXCEPT ![b] = "finalized"]
  /\ entries' = [entries EXCEPT ![b] = {}]

\* a destructor that finalizes the instance whether or not other owners remain
ReleaseClockRefEager(b) ==
  /\ strong' = [strong EXCEPT ![b] = @ - 1]
  /\ rcl_clock_deleter(b)

\* ~shared_ptr<rcl_clock_t>: drops one strong reference; the last one runs the deleter
ReleaseClockRef(b) ==
  /\ strong' = [strong EXCEPT ![b] = @ - 1]
  /\ IF strong[b] = 1
       THEN rcl_clock_deleter(b)
       ELSE UNCHANGED <<bState, finiCount, entries>>

\* a constructor that does not look at what rcl_clock_init returned
InitRefusedIgnored(ret) == FALSE

\* if (ret != RCL_RET_OK) throw_from_rcl_error(...)
InitRefused(ret) == ret # "RCL_RET_OK"

\* a constructor that holds the rcl_clock_t by a raw pointer until rcl_clock_init
\* succeeded: the throw leaves the allocation behind
UnwindRawPointer(b) ==
  /\ bState' = [bState EXCEPT ![b] = "leaked"]
  /\ UNCHANGED <<finiCount, entries>>

\* the throw out of the constructor destroys the member rcl_clock_, which already
\* owns the rcl_clock_t with rcl_clock_deleter as its deleter
UnwindConstructor(b) == rcl_clock_deleter(b)

\* Clock::Clock(clock_type); ret is what rcl_clock_init returns
Construct(type, ret) ==
  /\ \E c \in ClockIds : clockState[c] = "none"
  /\ \E b \in BackendIds : bState[b] = "unalloc"
  /\ LET c == Min({x \in ClockIds : clockState[x] = "none"})
         b == Min({x \in BackendIds : bState[x] = "unalloc"})
     IN IF ~InitRefused(ret)
          THEN /\ clockState' = [clockState EXCEPT ![c] = "alive"]
               /\ rcl_clock_' = [rcl_clock_ EXCEPT ![c] = b]
               /\ bState' = [bState EXCEPT ![b] = "valid"]
               /\ bType' = [bType EXCEPT ![b] = type]
               /\ bInitOk' = [bInitOk EXCEPT ![b] = (ret = "RCL_RET_OK")]
               /\ strong' = [strong EXCEPT ![b] = 1]
               /\ last' = [Call("Clock", "none") EXCEPT !.type = type]
               /\ UNCHANGED <<finiCount, entries>>
          ELSE /\ UnwindConstructor(b)
               /\ last' = Call("Clock", "InitializationError")
               /\ UNCHANGED <<clockState, rcl_clock_, bType, bInitOk, strong>>
  /\ UNCHANGED <<lateCall, handlerVars, disp, sourceVars>>

\* copy of a Clock value: the copy aliases the same rcl_clock_t
CopyClock(c) ==
  /\ clockState[c] = "alive"
  /\ \E c2 \in ClockIds : clockState[c2] = "none"
  /\ LET c2 == Min({x \in ClockIds : clockState[x] = "none"})
         b == rcl_clock_[c]
     IN /\ clockState' = [clockState EXCEPT ![c2] = "alive"]
        /\ rcl_clock_' = [rcl_clock_ EXCEPT ![c2] = b]
        /\ strong' = [strong EXCEPT ![b] = @ + 1]
  /\ UNCHANGED <<bState, bType, bInitOk, finiCount, entries, lateCall, handlerVars,
                 disp, sourceVars, last>>

\* a destructor that disarms the jump callbacks registered on its instance
DestroyClockDisarming(c) ==
  /\ clockState[c] = "alive"
  /\ clockState' = [clockState EXCEPT ![c] = "destroyed"]
  /\ rcl_clock_' = [rcl_clock_ EXCEPT ![c] = NullRef]
  /\ LET b == rcl_clock_[c]
     IN /\ strong' = [strong EXCEPT ![b] = @ - 1]
        /\ entries' = [entries EXCEPT ![b] = {}]
        /\ IF strong[b] = 1
             THEN /\ finiCount' = [finiCount EXCEPT ![b] = @ + 1]
                  /\ bState' = [bState EXCEPT ![b] = "finalized"]
             ELSE UNCHANGED <<bState, finiCount>>
  /\ UNCHANGED <<bType, bInitOk, lateCall, handlerVars, disp, sourceVars, last>>

\* Clock::~Clock
DestroyClock(c) ==
  /\ clockState[c] = "alive"
  /\ clockState' = [clockState EXCEPT ![c] = "destroyed"]
  /\ rcl_clock_' = [rcl_clock_ EXCEPT ![c] = NullRef]
  /\ ReleaseClockRef(rcl_clock_[c])
  /\ UNCHANGED <<bType, bInitOk, lateCall, handlerVars, disp, sourceVars, last>>

\* a now() that returns the Time it had initialized, not the one the backend wrote
NowResultInitial(b, ret, reading) ==
  IF ret = "RCL_RET_OK"
    THEN [Call("now", "none") EXCEPT !.type = bType[b], !.b = b, !.time = 0]
    ELSE Call("now", "TimeQueryError")

\* what Clock::now gives its caller when rcl_clock_get_now returns ret after writing
\* reading into now.rcl_time_.nanoseconds: Time(reading, rcl_clock_->type), or a throw
NowResult(b, ret, reading) ==
  IF ret = "RCL_RET_OK"
    THEN [Call("now", "none") EXCEPT !.type = bType[b], !.b = b, !.time = reading]
    ELSE Call("now", "TimeQueryError")

\* Clock::now
Now(c, ret) ==
  /\ clockState[c] = "alive"
  /\ lateCall' = Reach(rcl_clock_[c])
  /\ last' = NowResult(rcl_clock_[c], ret, bTime[rcl_clock_[c]])
  /\ UNCHANGED <<clockVars, bState, bType, bInitOk, strong, finiCount, entries,
                 handlerVars, disp, sourceVars>>

\* a ros_time_is_active that throws on an invalid clock instead of answering false
RosTimeResultThrowing(valid, ret, enabled) ==
  IF ~valid \/ ret # "RCL_RET_OK"
    THEN [Call("ros_time_is_active", "OverrideQueryError")
            EXCEPT !.asked = valid, !.valid = valid]
    ELSE [Call("ros_time_is_active", "none")
            EXCEPT !.valid = TRUE, !.asked = TRUE, !.bflag = enabled, !.flag = enabled]

\* a ros_time_is_active that asks for the override flag before it looks at validity
RosTimeResultAskFirst(valid, ret, enabled) ==
  IF ret # "RCL_RET_OK"
    THEN [Call("ros_time_is_active", "OverrideQueryError")
            EXCEPT !.valid = valid, !.asked = TRUE]
    ELSE [Call("ros_time_is_active", "none")
            EXCEPT !.valid = valid, !.asked = TRUE, !.bflag = enabled,
                   !.flag = valid /\ enabled]

\* what Clock::ros_time_is_active gives its caller: valid is what rcl_clock_valid
\* answers, ret and enabled what rcl_is_enabled_ros_time_override returns
RosTimeResult(valid, ret, enabled) ==
  IF ~valid
    THEN Call("ros_time_is_active", "none")
    ELSE IF ret # "RCL_RET_OK"
      THEN [Call("ros_time_is_active", "OverrideQueryError")
              EXCEPT !.valid = TRUE, !.asked = TRUE]
      ELSE [Call("ros_time_is_active", "none")
              EXCEPT !.valid = TRUE, !.asked = TRUE, !.bflag = enabled, !.flag = enabled]

\* Clock::ros_time_is_active
RosTimeIsActive(c, valid, ret, enabled) ==
  /\ clockState[c] = "alive"
  /\ lateCall' = Reach(rcl_clock_[c])
  /\ last' = RosTimeResult(valid, ret, enabled)
  /\ UNCHANGED <<clockVars, bState, bType, bInitOk, strong, finiCount, entries,
                 handlerVars, disp, sourceVars>>

\* a get_clock_type that answers for a ROS-time clock whatever the instance is
ClockTypeAssumed(b) ==
  [Call("get_clock_type", "none") EXCEPT !.type = "RCL_ROS_TIME", !.b = b]

\* what Clock::get_clock_type gives its caller: rcl_clock_->type
ClockTypeResult(b) ==
  [Call("get_clock_type", "none") EXCEPT !.type = bType[b], !.b = b]

\* Clock::get_clock_type
GetClockType(c) ==
  /\ clockState[c] = "alive"
  /\ last' = ClockTypeResult(rcl_clock_[c])
  /\ UNCHANGED <<clockVars, backendVars, handlerVars, disp, sourceVars>>

\* ---------------------------------------------------------------- JumpHandler
\* a deleter that captures the shared_ptr itself: the instance gains an owner
CaptureClockStrong(b) == [strong EXCEPT ![b] = @ + 1]

\* std::weak_ptr<rcl_clock_t> weak_clock = rcl_clock_: the use_count of the instance
\* after the deleter has captured its back-link
CaptureClock(b) == strong

\* a registration that arms the entry with a default (any-jump) threshold
ArmThresholdDefault(threshold) == 0

\* the threshold create_jump_callback hands to rcl_clock_add_jump_callback: its own
\* argument, as it is
ArmThreshold(threshold) == threshold

\* a failed registration that throws with the handler held by a raw pointer
ArmFailedLeak(h) ==
  /\ hState' = [hState EXCEPT ![h] = "live"]
  /\ freeCount' = freeCount
  /\ entries' = entries
  /\ last' = Call("create_jump_callback", "RegistrationError")

\* create_jump_callback when rcl_clock_add_jump_callback fails: the backend's table
\* is as it was, and the throw destroys the JumpHandler::UniquePtr, freeing handler h
ArmFailed(h) ==
  /\ hState' = [hState EXCEPT ![h] = "freed"]
  /\ freeCount' = [freeCount EXCEPT ![h] = @ + 1]
  /\ entries' = entries
  /\ last' = Call("create_jump_callback", "RegistrationError")

\* Clock::create_jump_callback; ret is what rcl_clock_add_jump_callback returns
CreateJumpCallback(c, pre, post, threshold, ret) ==
  /\ clockState[c] = "alive"
  /\ \E h \in HandlerIds : hState[h] = "none"
  /\ LET h == Min({x \in HandlerIds : hState[x] = "none"})
         b == rcl_clock_[c]
     IN /\ lateCall' = Reach(b)
        /\ IF ret = "RCL_RET_OK"
             THEN /\ hState' = [hState EXCEPT ![h] = "live"]
                  /\ pre_callback' = [pre_callback EXCEPT ![h] = pre]
                  /\ post_callback' = [post_callback EXCEPT ![h] = post]
                  /\ notice_threshold' = [notice_threshold EXCEPT ![h] = threshold]
                  /\ entries' = [entries EXCEPT ![b] = @ \cup {h}]
                  /\ weak_clock' = [weak_clock EXCEPT ![h] = b]
                  /\ armed_threshold' = [armed_threshold EXCEPT ![h] = ArmThreshold(threshold)]
                  /\ strong' = CaptureClock(b)
                  /\ tokRefs' = [tokRefs EXCEPT ![h] = 1]
                  /\ last' = [Call("create_jump_callback", "none") EXCEPT !.h = h]
                  /\ UNCHANGED freeCount
             ELSE /\ ArmFailed(h)
                  /\ UNCHANGED <<pre_callback, post_callback, notice_threshold,
                                 armed_threshold, weak_clock, strong, tokRefs>>
  /\ UNCHANGED <<clockVars, bState, bType, bInitOk, finiCount, removeCalls,
                 dpc, shared_clock, disp, bTime, jump>>

\* copy of a JumpHandler::SharedPtr
CopyToken(h) ==
  /\ tokRefs[h] >= 1
  /\ tokRefs[h] < MaxTokenRefs
  /\ tokRefs' = [tokRefs EXCEPT ![h] = @ + 1]
  /\ UNCHANGED <<clockVars, backendVars, hState, pre_callback, post_callback,
                 notice_threshold, weak_clock, freeCount, removeCalls, dpc,
                 shared_clock, disp, sourceVars, last>>

\* a token whose every release runs the deleter
AnyRelease(n) == TRUE

\* whether a release that finds use_count n drops the last reference
LastRelease(n) == n = 1

\* release of a JumpHandler::SharedPtr; the last release enters the deleter
ReleaseToken(h) ==
  /\ tokRefs[h] >= 1
  /\ tokRefs' = [tokRefs EXCEPT ![h] = @ - 1]
  /\ dpc' = [dpc EXCEPT ![h] = IF LastRelease(tokRefs[h]) THEN "lock" ELSE @]
  /\ UNCHANGED <<clockVars, backendVars, hState, pre_callback, post_callback,
                 notice_threshold, weak_clock, freeCount, removeCalls,
                 shared_clock, disp, sourceVars, last>>

\* a deleter that keeps the raw rcl_clock_t pointer and never asks whether it expired
RawClockPointer(b) == b

\* weak_ptr<rcl_clock_t>::lock(): the instance while a strong reference exists
WeakLock(b) == IF strong[b] > 0 THEN b ELSE NullRef

\* deleter: auto shared_clock = weak_clock.lock();
DeleterLock(h) ==
  /\ dpc[h] = "lock"
  /\ LET b == WeakLock(weak_clock[h])
     IN /\ shared_clock' = [shared_clock EXCEPT ![h] = b]
        /\ strong' = IF b # NullRef THEN [strong EXCEPT ![b] = @ + 1] ELSE strong
  /\ dpc' = [dpc EXCEPT ![h] = "remove"]
  /\ UNCHANGED <<clockVars, bState, bType, bInitOk, finiCount, entries, lateCall,
                 hState, pre_callback, post_callback, notice_threshold, weak_clock,
                 tokRefs, freeCount, removeCalls, disp, sourceVars, last>>

\* a deleter that throws on a failed remove, as the other call sites do
AfterRemoveThrow(ret) == IF ret = "RCL_RET_OK" THEN "delete" ELSE "threw"

\* where the deleter goes after rcl_clock_remove_jump_callback returned ret:
\* a failure is logged and the deleter carries on
AfterRemove(ret) == "delete"

\* deleter: if (shared_clock) { rcl_clock_remove_jump_callback(...); log on failure }
\* ret is what the backend returns; removed is whether its table lost the entry
\* (always on RCL_RET_OK, the backend's choice on a failure). Without a locked
\* instance no call is made, and ret and removed are not used.
DeleterRemove(h, ret, removed) ==
  /\ dpc[h] = "remove"
  /\ ret = "RCL_RET_OK" => removed
  /\ LET b == shared_clock[h]
     IN IF b # NullRef
          THEN /\ removeCalls' = [removeCalls EXCEPT ![h] = @ + 1]
               /\ lateCall' = Reach(b)
               /\ entries' = [entries EXCEPT ![b] = IF removed THEN @ \ {h} ELSE @]
               /\ dpc' = [dpc EXCEPT ![h] = AfterRemove(ret)]
          ELSE /\ ret = "RCL_RET_OK"
               /\ dpc' = [dpc EXCEPT ![h] = "delete"]
               /\ UNCHANGED <<removeCalls, lateCall, entries>>
  /\ UNCHANGED <<clockVars, bState, bType, bInitOk, strong, finiCount,
                 hState, pre_callback, post_callback, notice_threshold, weak_clock,
                 tokRefs, freeCount, shared_clock, disp, sourceVars, last>>

\* deleter: delete handler; (the freed members hold no defined value any more)
DeleterDelete(h) ==
  /\ dpc[h] = "delete"
  /\ hState' = [hState EXCEPT ![h] = "freed"]
  /\ freeCount' = [freeCount EXCEPT ![h] = @ + 1]
  /\ pre_callback' = [pre_callback EXCEPT ![h] = FALSE]
  /\ post_callback' = [post_callback EXCEPT ![h] = FALSE]
  /\ notice_threshold' = [notice_threshold EXCEPT ![h] = 0]
  /\ dpc' = [dpc EXCEPT ![h] = "exit"]
  /\ UNCHANGED <<clockVars, backendVars, weak_clock, tokRefs, removeCalls,
                 shared_clock, disp, sourceVars, last>>

\* deleter: end of the lambda, shared_clock goes out of scope
DeleterExit(h) ==
  /\ dpc[h] = "exit"
  /\ IF shared_clock[h] # NullRef
       THEN ReleaseClockRef(shared_clock[h])
       ELSE UNCHANGED <<strong, bState, finiCount, entries>>
  /\ shared_clock' = [shared_clock EXCEPT ![h] = NullRef]
  /\ dpc' = [dpc EXCEPT ![h] = "done"]
  /\ UNCHANGED <<clockVars, bType, bInitOk, lateCall, hState, pre_callback,
                 post_callback, notice_threshold, weak_clock, tokRefs, freeCount,
                 removeCalls, disp, sourceVars, last>>

\* ---------------------------------------------------------------- time source
\* time passes on the backend's source
BackendTick(b) ==
  /\ bState[b] = "valid"
  /\ bTime[b] < MaxTime
  /\ bTime' = [bTime EXCEPT ![b] = @ + 1]
  /\ UNCHANGED <<clockVars, backendVars, handlerVars, disp, armed_threshold, jump, last>>

\* the source of a clock that is not steady is set back (the wall clock is adjusted,
\* the override is given an earlier time)
BackendStepBack(b) ==
  /\ bState[b] = "valid"
  /\ bType[b] # "RCL_STEADY_TIME"
  /\ bTime[b] > 0
  /\ bTime' = [bTime EXCEPT ![b] = @ - 1]
  /\ UNCHANGED <<clockVars, backendVars, handlerVars, disp, armed_threshold, jump, last>>

\* ---------------------------------------------------------------- dispatch
\* The backend delivers a jump: it calls Clock::on_time_jump(jump, before_jump,
\* user_data) with the user_data of one of its table entries (or a null one).
BackendDispatch(t, b, h, before, delta) ==
  /\ disp[t].pc \in {"idle", "returned"}
  /\ bState[b] = "valid"
  /\ h \in entries[b] \cup {NullRef}
  /\ disp' = [disp EXCEPT ![t] =
                [IdleDispatch EXCEPT !.pc = "called", !.h = h, !.b = b,
                                     !.before = before, !.delta = delta,
                                     !.late = (h # NullRef /\ dpc[h] = "done")]]
  /\ UNCHANGED <<clockVars, backendVars, handlerVars, sourceVars, last>>

\* ---------------------------------------------------------------- jump events
\* the backend's test of a forward jump against the threshold of an entry: a jump
\* of at least min_forward qualifies, a zero threshold lets every jump qualify
Qualifies(threshold, delta) == delta >= threshold

\* the entries of b that a forward jump of delta qualifies for
Qualifying(b, delta) == {h \in entries[b] : Qualifies(armed_threshold[h], delta)}

\* some call of on_time_jump made for the event has not returned
EventInFlight == \E t \in ThreadIds : disp[t].pc = "called" /\ disp[t].event

\* the entries the backend has yet to call in the present phase of the event
EventPending == jump.todo \cap entries[jump.b]

\* The backend detects that its time is about to move forward by delta and begins to
\* deliver the jump. Before the jump it calls every entry the jump qualifies for;
\* whether it also calls the others is its own affair (told).
JumpBegin(b, delta, told) ==
  /\ jump.phase \in {"idle", "done"}
  /\ bState[b] = "valid"
  /\ entries[b] # {}
  /\ bTime[b] + delta <= MaxTime
  /\ Qualifying(b, delta) \subseteq told
  /\ told \subseteq entries[b]
  /\ jump' = [IdleJump EXCEPT !.phase = "before", !.b = b, !.delta = delta,
                              !.start = entries[b], !.told = told, !.todo = told]
  /\ UNCHANGED <<clockVars, backendVars, handlerVars, disp, bTime, armed_threshold,
                 last>>

\* the backend calls Clock::on_time_jump for the next entry of the event, with the
\* user_data of the entry, the jump, and before_jump by the phase of the event
JumpCall(t, h) ==
  /\ jump.phase \in {"before", "after"}
  /\ disp[t].pc # "called"
  /\ bState[jump.b] = "valid"
  /\ h \in EventPending
  /\ disp' = [disp EXCEPT ![t] =
                [IdleDispatch EXCEPT !.pc = "called", !.h = h, !.b = jump.b,
                                     !.before = (jump.phase = "before"),
                                     !.delta = jump.delta, !.event = TRUE,
                                     !.late = (dpc[h] = "done")]]
  /\ jump' = [jump EXCEPT !.todo = @ \ {h}]
  /\ UNCHANGED <<clockVars, backendVars, handlerVars, bTime, armed_threshold, last>>

\* the before-jump calls are over: the backend moves its time, and is to call after
\* the jump every entry the jump qualifies for
JumpApply ==
  /\ jump.phase = "before"
  /\ ~EventInFlight
  /\ EventPending = {}
  /\ bState[jump.b] = "valid"
  /\ bTime' = [bTime EXCEPT ![jump.b] = @ + jump.delta]
  /\ jump' = [jump EXCEPT !.phase = "after", !.todo = Qualifying(jump.b, jump.delta)]
  /\ UNCHANGED <<clockVars, backendVars, handlerVars, disp, armed_threshold, last>>

\* the after-jump calls are over: the event is delivered
JumpEnd ==
  /\ jump.phase = "after"
  /\ ~EventInFlight
  /\ EventPending = {}
  /\ jump' = [jump EXCEPT !.phase = "done", !.todo = {}]
  /\ UNCHANGED <<clockVars, backendVars, handlerVars, disp, bTime, armed_threshold,
                 last>>

\* an on_time_jump that tests before_jump the wrong way round
OnTimeJumpBodyInverted(isNull, before, pre, post) ==
  IF isNull THEN {}
  ELSE IF ~before /\ pre THEN {"pre"}
  ELSE IF before /\ post THEN {"post"}
  ELSE {}

\* an on_time_jump whose second branch forgets the else and the !before_jump test
OnTimeJumpBodyNoElse(isNull, before, pre, post) ==
  IF isNull THEN {}
  ELSE (IF before /\ pre THEN {"pre"} ELSE {}) \cup (IF post THEN {"post"} ELSE {})

\* the callbacks Clock::on_time_jump invokes, from before_jump and the handler it reads
OnTimeJumpBody(isNull, before, pre, post) ==
  IF isNull THEN {}
  ELSE IF before /\ pre THEN {"pre"}
  ELSE IF ~before /\ post THEN {"post"}
  ELSE {}

\* an on_time_jump that keeps the handler to call in a static slot, written by the
\* latest registration
HandlerOfLatest(user_data) ==
  IF user_data = NullRef THEN NullRef
  ELSE CHOOSE h \in HandlerIds :
         /\ hState[h] = "live" \/ h = user_data
         /\ \A h2 \in HandlerIds : (hState[h2] = "live" \/ h2 = user_data) => h2 <= h

\* const auto * handler = static_cast<JumpHandler *>(user_data)
HandlerOf(user_data) == user_data

\* the invocations a call of on_time_jump adds to the log of the event: the callbacks
\* in inv, the post-callback with the delta it was handed
Invocations(inv, arg) ==
  (IF "pre" \in inv THEN <<[cb |-> "pre", delta |-> 0]>> ELSE <<>>)
    \o (IF "post" \in inv THEN <<[cb |-> "post", delta |-> arg]>> ELSE <<>>)

\* Clock::on_time_jump running on backend thread t. Reading a deleted handler is
\* undefined: the members read then hold any value.
OnTimeJump(t) ==
  /\ disp[t].pc = "called"
  /\ LET d == disp[t]
         handler == HandlerOf(d.h)
         live == handler # NullRef /\ hState[handler] = "live"
     IN \E rdPre, rdPost \in BOOLEAN :
          /\ handler = NullRef => ~rdPre /\ ~rdPost
          /\ live => rdPre = pre_callback[handler] /\ rdPost = post_callback[handler]
          /\ LET inv == OnTimeJumpBody(handler = NullRef, d.before, rdPre, rdPost)
                 arg == IF "post" \in inv THEN d.delta ELSE 0
             IN /\ disp' = [disp EXCEPT ![t] =
                              [d EXCEPT !.pc = "returned", !.b = NullRef,
                                        !.target = handler, !.invoked = inv,
                                        !.arg = arg]]
                /\ jump' = IF d.event /\ inv # {}
                             THEN [jump EXCEPT !.log[handler] = @ \o Invocations(inv, arg)]
                             ELSE jump
  /\ UNCHANGED <<clockVars, backendVars, handlerVars, bTime, armed_threshold, last>>

\* ---------------------------------------------------------------- specifications
\* construction and destruction of Clocks of the given types
ClockLife(Types) ==
  \/ \E type \in Types, ret \in RclRets : Construct(type, ret)
  \/ \E c \in ClockIds : DestroyClock(c)

\* registration with callbacks present or not as in Pres, Posts, while fewer than
\* limit handlers were allocated
Register(Pres, Posts, Thresholds, limit) ==
  /\ Cardinality({h \in HandlerIds : hState[h] # "none"}) < limit
  /\ \E c \in ClockIds, pre \in Pres, post \in Posts, threshold \in Thresholds,
        ret \in RclRets : CreateJumpCallback(c, pre, post, threshold, ret)

Deleter ==
  \/ \E h \in HandlerIds : DeleterLock(h)
  \/ \E h \in HandlerIds, ret \in RclRets, removed \in BOOLEAN :
       DeleterRemove(h, ret, removed)
  \/ \E h \in HandlerIds : DeleterDelete(h)
  \/ \E h \in HandlerIds : DeleterExit(h)

\* jump dispatch against the lifetime of clocks, handlers and tokens
Next ==
  \/ ClockLife({"RCL_ROS_TIME"})
  \/ Register(BOOLEAN, BOOLEAN, {0}, MaxRegistrations)
  \/ \E h \in HandlerIds : ReleaseToken(h)
  \/ Deleter
  \/ \E t \in JumpThreads, b \in BackendIds, h \in HandlerIds \cup {NullRef},
        before \in BOOLEAN, delta \in Deltas : BackendDispatch(t, b, h, before, delta)
  \/ \E t \in JumpThreads : OnTimeJump(t)

Spec == Init /\ [][Next]_vars

\* the caller's API: queries and registration, against the lifetime of clocks and tokens
QueryNext ==
  \/ ClockLife(ClockTypes)
  \/ \E c \in ClockIds : CopyClock(c)
  \/ \E c \in ClockIds, ret \in RclRets : Now(c, ret)
  \/ \E c \in ClockIds, valid \in BOOLEAN, ret \in RclRets, enabled \in BOOLEAN :
       RosTimeIsActive(c, valid, ret, enabled)
  \/ \E c \in ClockIds : GetClockType(c)
  \/ Register({TRUE}, {TRUE}, {0}, MaxRegistrations)
  \/ \E h \in HandlerIds : ReleaseToken(h)
  \/ Deleter

SpecQuery == Init /\ [][QueryNext]_vars

\* lifetime alone (SpecLife); in SpecFair a thread that entered the deleter runs it
\* to its end
LifeNext ==
  \/ ClockLife({"RCL_ROS_TIME"})
  \/ \E c \in ClockIds : CopyClock(c)
  \/ Register({TRUE}, {TRUE}, {0}, MaxHandlers)
  \/ \E h \in HandlerIds : CopyToken(h)
  \/ \E h \in HandlerIds : ReleaseToken(h)
  \/ Deleter

SpecLife == Init /\ [][LifeNext]_vars

SpecFair == Init /\ [][LifeNext]_vars /\ WF_vars(Deleter)

\* now() against the backend's source moving, with a registration in place
TimeNext ==
  \/ ClockLife(ClockTypes)
  \/ \E c \in ClockIds, ret \in RclRets : Now(c, ret)
  \/ \E b \in BackendIds : BackendTick(b)
  \/ \E b \in BackendIds : BackendStepBack(b)
  \/ Register({TRUE}, {TRUE}, {0}, MaxRegistrations)

SpecTime == Init /\ [][TimeNext]_vars

\* the caller's queries and the backend's dispatch calls, with a registration in place
ApiNext ==
  \/ \E type \in ClockTypes, ret \in RclRets : Construct(type, ret)
  \/ Register({TRUE}, {TRUE}, {0}, MaxRegistrations)
  \/ \E c \in ClockIds, ret \in RclRets : Now(c, ret)
  \/ \E c \in ClockIds, valid \in BOOLEAN, ret \in RclRets, enabled \in BOOLEAN :
       RosTimeIsActive(c, valid, ret, enabled)
  \/ \E c \in ClockIds : GetClockType(c)
  \/ \E t \in JumpThreads, b \in BackendIds, h \in HandlerIds \cup {NullRef},
        before \in BOOLEAN, delta \in Deltas : BackendDispatch(t, b, h, before, delta)
  \/ \E t \in JumpThreads : OnTimeJump(t)

SpecApi == Init /\ [][ApiNext]_vars

\* the Clock every token of SpecCopies is obtained from
FirstClock == Min(ClockIds)

\* registration on the first Clock, while fewer than limit handlers were allocated
RegisterOnFirst(limit) ==
  /\ Cardinality({h \in HandlerIds : hState[h] # "none"}) < limit
  /\ \E ret \in RclRets : CreateJumpCallback(FirstClock, TRUE, TRUE, 0, ret)

\* copies of a Clock against tokens that were all obtained from the first Clock
CopiesNext ==
  \/ ClockLife({"RCL_ROS_TIME"})
  \/ \E c \in ClockIds : CopyClock(c)
  \/ RegisterOnFirst(MaxHandlers)
  \/ \E h \in HandlerIds : ReleaseToken(h)
  \/ Deleter

SpecCopies == Init /\ [][CopiesNext]_vars

\* the backend's delivery of jump events
JumpEvent ==
  \/ \E b \in BackendIds, delta \in Deltas, told \in SUBSET HandlerIds :
       JumpBegin(b, delta, told)
  \/ \E t \in JumpThreads, h \in HandlerIds : JumpCall(t, h)
  \/ JumpApply
  \/ JumpEnd

\* jump events delivered to handlers registered with a threshold and held by their
\* tokens, against the lifetime of the clocks
JumpNext ==
  \/ ClockLife({"RCL_ROS_TIME"})
  \/ Register(BOOLEAN, {TRUE}, Deltas, MaxRegistrations)
  \/ JumpEvent
  \/ \E t \in JumpThreads : OnTimeJump(t)

SpecJump == Init /\ [][JumpNext]_vars

\* the registrations SpecPair sets side by side: one handler and another
PairOfHandlers == 2

\* two handlers registered with the same callbacks and threshold, dispatched to from
\* two backend threads at once, against the lifetime of clocks and tokens
PairNext ==
  \/ ClockLife({"RCL_ROS_TIME"})
  \/ Register({TRUE}, {TRUE}, {0}, PairOfHandlers)
  \/ \E h \in HandlerIds : ReleaseToken(h)
  \/ Deleter
  \/ \E t \in ThreadIds, b \in BackendIds, h \in HandlerIds, before \in BOOLEAN :
       BackendDispatch(t, b, h, before, 0)
  \/ \E t \in ThreadIds : OnTimeJump(t)

SpecPair == Init /\ [][PairNext]_vars

\* ---------------------------------------------------------------- properties
InFlight(t) == disp[t].pc = "called" /\ disp[t].h # NullRef

\* C1: once the deleter of a handler has finished, the backend holds no table entry
\* that points at the handler and no jump delivered afterwards invokes one of its
\* callbacks, whatever rcl_clock_remove_jump_callback returned.
C1_NoEntryAfterRelease ==
  \A h \in HandlerIds :
    dpc[h] = "done" =>
      /\ \A b \in BackendIds : h \notin entries[b]
      /\ \A t \in ThreadIds :
           ~(disp[t].h = h /\ disp[t].late /\ disp[t].invoked # {})

\* C2: while a backend that is still alive is inside on_time_jump for a handler, the
\* handler is not freed and its table entry is not removed; no handler is freed twice.
C2_NoFreeDuringDispatch ==
  /\ \A t \in ThreadIds :
       (InFlight(t) /\ bState[disp[t].b] = "valid") =>
         /\ hState[disp[t].h] = "live"
         /\ disp[t].h \in entries[disp[t].b]
  /\ \A h \in HandlerIds : freeCount[h] <= 1

\* C3: rcl_clock_remove_jump_callback (like every other rcl call) never reaches a
\* finalized instance: a deleter that holds a locked instance holds a live one, and a
\* deleter that finds the instance finalized makes no call on it.
C3_RemoveNeverOnFinalized ==
  /\ \A b \in BackendIds : ~lateCall[b]
  /\ \A h \in HandlerIds :
       /\ shared_clock[h] # NullRef => bState[shared_clock[h]] = "valid"
       /\ (dpc[h] \in {"remove", "delete", "exit"}
             /\ bState[weak_clock[h]] = "finalized") =>
            (shared_clock[h] = NullRef /\ removeCalls[h] = 0)

\* C3 witness: a token released after its Clock was destroyed: the deleter finished,
\* the handler is freed and no remove call was made
C3_Witness ==
  \E h \in HandlerIds :
    /\ dpc[h] = "done" /\ hState[h] = "freed" /\ removeCalls[h] = 0
    /\ bState[weak_clock[h]] = "finalized"

\* C4: the deleter does not run while a copy of the token is held, it runs when the
\* last copy is released, and it calls the backend's remove at most once: once when
\* the instance still exists, not at all otherwise.
C4_DeregisterOnceOnLastRelease ==
  \A h \in HandlerIds :
    /\ tokRefs[h] > 0 => (dpc[h] = "idle" /\ hState[h] = "live")
    /\ (hState[h] = "live" /\ tokRefs[h] = 0) => dpc[h] \in {"lock", "remove", "delete"}
    /\ removeCalls[h] <= 1 /\ freeCount[h] <= 1
    /\ dpc[h] \in {"idle", "lock", "remove"} => removeCalls[h] = 0
    /\ dpc[h] \in {"delete", "exit"} =>
         removeCalls[h] = (IF shared_clock[h] # NullRef THEN 1 ELSE 0)

\* C4 witness: one handler's token is held twice and its deleter has not run, while
\* another handler's last token was released and it was deregistered with one remove
C4_Witness ==
  \E h1, h2 \in HandlerIds :
    /\ tokRefs[h1] = 2 /\ dpc[h1] = "idle"
    /\ dpc[h2] = "done" /\ removeCalls[h2] = 1 /\ freeCount[h2] = 1 /\ tokRefs[h2] = 0

\* a step in which create_jump_callback allocated handler h and threw
ArmRefused(h) == hState[h] = "none" /\ hState'[h] # "none"
                   /\ last'.err = "RegistrationError"

\* C5: when rcl_clock_add_jump_callback fails, create_jump_callback throws, returns
\* no token, frees the handler it allocated, leaves the backend's table as it was,
\* and leaves every Clock and instance as it was.
C5_FailedArmLeavesNothing ==
  [][\A h \in HandlerIds :
       ArmRefused(h) =>
         /\ last'.op = "create_jump_callback" /\ last'.h = NullRef
         /\ hState'[h] = "freed" /\ freeCount'[h] = 1
         /\ tokRefs'[h] = 0 /\ dpc'[h] = "idle"
         /\ entries' = entries
         /\ clockState' = clockState /\ rcl_clock_' = rcl_clock_
         /\ bState' = bState /\ strong' = strong]_vars

\* C5 witness: a registration was refused (its handler is freed without a deleter
\* run) and a later registration succeeded
C5_Witness ==
  \E h1, h2 \in HandlerIds, b \in BackendIds :
    /\ hState[h1] = "freed" /\ dpc[h1] = "idle" /\ freeCount[h1] = 1
    /\ h1 \notin entries[b] /\ entries[b] # {}
    /\ last.op = "create_jump_callback" /\ last.err = "none" /\ last.h = h2 /\ h2 > h1

\* C6 as stated: rcl_clock_fini runs exactly once, never while a Clock aliasing the
\* instance exists, and at the moment the last such Clock is destroyed; no rcl call
\* reaches the instance afterwards.
C6_FiniWhenLastClockDestroyed ==
  \A b \in BackendIds :
    bInitOk[b] =>
      /\ finiCount[b] <= 1
      /\ bState[b] = "finalized" <=> finiCount[b] = 1
      /\ bState[b] = "finalized" => ClocksOf(b) = {}
      /\ ClocksOf(b) = {} => bState[b] = "finalized"
      /\ ~lateCall[b]

\* C6 amended: rcl_clock_fini runs exactly once, never while a Clock aliasing the
\* instance exists, and at the moment the last owner is gone: the last Clock, or a
\* token deleter that had locked the instance when that Clock was destroyed; no rcl
\* call reaches the instance afterwards.
C6_FiniWhenLastOwnerGone ==
  \A b \in BackendIds :
    bInitOk[b] =>
      /\ finiCount[b] <= 1
      /\ bState[b] = "finalized" <=> finiCount[b] = 1
      /\ bState[b] = "finalized" => ClocksOf(b) = {}
      /\ (ClocksOf(b) = {} /\ LocksOf(b) = {}) <=> bState[b] = "finalized"
      /\ ~lateCall[b]

\* C6 witness: two Clocks aliased the one instance there is, both are destroyed and
\* the instance is finalized
C6_Witness ==
  \E b \in BackendIds :
    /\ bInitOk[b] /\ bState[b] = "finalized" /\ finiCount[b] = 1
    /\ \A b2 \in BackendIds \ {b} : bState[b2] = "unalloc"
    /\ Cardinality({c \in ClockIds : clockState[c] = "destroyed"}) >= 2

\* C7: tokens are no owners of the instance (its use_count counts the Clocks and the
\* deleters that have it locked, never the tokens held), an instance without Clocks
\* and without a running deleter is finalized however many tokens are held, and once
\* the last Clock is destroyed the instance is finalized, also when a deleter runs
\* at that moment.
C7_TokensNeverExtendBackendLife ==
  /\ [](\A b \in BackendIds :
          /\ strong[b] = Cardinality(ClocksOf(b)) + Cardinality(LocksOf(b))
          /\ (bInitOk[b] /\ ClocksOf(b) = {} /\ LocksOf(b) = {}) =>
               bState[b] = "finalized")
  /\ \A b \in BackendIds :
       (bInitOk[b] /\ ClocksOf(b) = {}) ~> (bState[b] = "finalized")

\* C7 witness: an instance is finalized while a token of a handler registered on it
\* is still held
C7_Witness ==
  \E h \in HandlerIds :
    tokRefs[h] >= 1 /\ hState[h] = "live" /\ bState[weak_clock[h]] = "finalized"

\* C8: the deleter never lets an error escape and frees the handler exactly once,
\* whatever the remove call returned and whether or not the instance still exists.
C8_ReleaseAlwaysFreesOnce ==
  \A h \in HandlerIds :
    /\ dpc[h] # "threw"
    /\ freeCount[h] <= 1
    /\ dpc[h] \in {"exit", "done"} => (hState[h] = "freed" /\ freeCount[h] = 1)
    /\ dpc[h] \in {"lock", "remove", "delete"} => (hState[h] = "live" /\ freeCount[h] = 0)

\* C8 witness: the remove call failed (the entry is still in the table) and the
\* deleter finished with the handler freed
C8_Witness ==
  \E h \in HandlerIds, b \in BackendIds :
    dpc[h] = "done" /\ removeCalls[h] = 1 /\ h \in entries[b] /\ freeCount[h] = 1

\* C9: a call of on_time_jump invokes at most one callback: none for a null
\* user_data; with before_jump the pre-callback if the handler has one, never the
\* post-callback; without before_jump the post-callback, with the delivered jump, if
\* the handler has one, never the pre-callback.
C9_OnTimeJumpAtMostOneCallback ==
  [][\A t \in ThreadIds :
       (disp[t].pc = "called" /\ disp'[t].pc = "returned") =>
         LET d == disp[t]
             r == disp'[t]
             live == d.h # NullRef /\ hState[d.h] = "live"
         IN /\ Cardinality(r.invoked) <= 1
            /\ d.h = NullRef => r.invoked = {}
            /\ d.before => "post" \notin r.invoked
            /\ ~d.before => "pre" \notin r.invoked
            /\ (live /\ d.before) => ("pre" \in r.invoked <=> pre_callback[d.h])
            /\ (live /\ ~d.before) => ("post" \in r.invoked <=> post_callback[d.h])
            /\ "post" \in r.invoked => r.arg = d.delta
            /\ r.h = d.h /\ r.before = d.before /\ r.delta = d.delta]_vars

\* C9 witness: a before_jump call on a live handler that has both callbacks invoked
\* the pre-callback alone
C9_Witness ==
  \E t \in ThreadIds :
    /\ disp[t].pc = "returned" /\ disp[t].h # NullRef /\ disp[t].before
    /\ hState[disp[t].h] = "live"
    /\ pre_callback[disp[t].h] /\ post_callback[disp[t].h]
    /\ disp[t].invoked = {"pre"}

C11_InvalidClockAnswersFalse ==
  last.op = "ros_time_is_active" =>
    /\ ~last.valid => (last.err = "none" /\ ~last.flag /\ ~last.asked)
    /\ (last.valid /\ last.err = "none") => (last.asked /\ last.flag = last.bflag)

\* C11 witness: the clock was reported invalid and the call returned false without
\* asking for the flag
C11_Witness ==
  /\ last.op = "ros_time_is_active" /\ ~last.valid /\ ~last.asked
  /\ last.err = "none" /\ ~last.flag

\* an instance whose rcl_clock_init failed
InitFailedOn(b) == bState[b] # "unalloc" /\ ~bInitOk[b]

\* C14: when rcl_clock_init fails the constructor throws and no Clock exists: no
\* Clock aliases that instance, it has no owner and no registration, and no now(),
\* query or registration call ever reaches it.
C14_NoClockAfterFailedInit ==
  /\ [](\A b \in BackendIds :
          InitFailedOn(b) =>
            /\ ClocksOf(b) = {} /\ strong[b] = 0
            /\ entries[b] = {} /\ ~lateCall[b]
            /\ \A h \in HandlerIds : hState[h] # "none" => weak_clock[h] # b)
  /\ [][\A b \in BackendIds :
          (bState[b] = "unalloc" /\ bState'[b] # "unalloc" /\ ~bInitOk'[b]) =>
            /\ last'.op = "Clock" /\ last'.err = "InitializationError"
            /\ clockState' = clockState /\ rcl_clock_' = rcl_clock_]_vars

\* C14 witness: a construction failed: the caller got the error and no Clock exists
C14_Witness ==
  \E b \in BackendIds :
    /\ InitFailedOn(b) /\ ClocksOf(b) = {}
    /\ \A c \in ClockIds : clockState[c] = "none"
    /\ last.op = "Clock" /\ last.err = "InitializationError"

\* C19: the instance whose rcl_clock_init failed is released through
\* rcl_clock_deleter like any other: rcl_clock_fini ran on it exactly once, its
\* storage is freed, and nothing owns it.
C19_FailedInitFinalizedOnce ==
  \A b \in BackendIds :
    InitFailedOn(b) => (finiCount[b] = 1 /\ bState[b] = "finalized" /\ strong[b] = 0)

\* C19 witness: the constructor threw and the instance it had allocated is finalized
C19_Witness ==
  \E b \in BackendIds :
    /\ InitFailedOn(b) /\ finiCount[b] = 1 /\ bState[b] = "finalized"
    /\ last.op = "Clock" /\ last.err = "InitializationError"

\* a step in which now() was called and gave its caller something new
NowStep == last'.op = "now" /\ last' # last

\* C13: now() returns the reading the backend gave, unmodified, tagged with the
\* type of the Clock's instance; when the read fails it throws, returns no Time, and
\* leaves the Clocks, the registrations and the ownership of the instance as they
\* were; two successive results of a steady Clock never go backwards.
C13_NowReturnsBackendReading ==
  [][/\ (NowStep /\ last'.err = "none") =>
          /\ last'.b # NullRef /\ ClocksOf(last'.b) # {}
          /\ last'.time = bTime[last'.b] /\ last'.type = bType[last'.b]
     /\ (NowStep /\ last'.err # "none") =>
          /\ last'.err = "TimeQueryError"
          /\ last'.b = NullRef /\ last'.type = "none" /\ last'.time = 0
     /\ NowStep =>
          /\ clockState' = clockState /\ rcl_clock_' = rcl_clock_
          /\ bState' = bState /\ strong' = strong /\ entries' = entries
          /\ hState' = hState /\ tokRefs' = tokRefs /\ bTime' = bTime
     /\ (/\ NowStep /\ last'.err = "none"
         /\ last.op = "now" /\ last.err = "none" /\ last.b = last'.b
         /\ bType[last.b] = "RCL_STEADY_TIME") =>
          last'.time >= last.time]_vars

\* C13 witness: a read failed on a steady Clock that has a registration, after its
\* source had advanced; the Clock and the registration are still there
C13_Witness ==
  \E c \in ClockIds :
    /\ last.op = "now" /\ last.err = "TimeQueryError"
    /\ clockState[c] = "alive" /\ bType[rcl_clock_[c]] = "RCL_STEADY_TIME"
    /\ bState[rcl_clock_[c]] = "valid" /\ bTime[rcl_clock_[c]] > 0
    /\ entries[rcl_clock_[c]] # {}

\* a step in which one of the queries was called and gave its caller something new
QueryStep ==
  last' # last /\ last'.op \in {"get_clock_type", "now", "ros_time_is_active"}

\* a step in which a call of on_time_jump ran
DispatchStep ==
  \E t \in ThreadIds : disp[t].pc = "called" /\ disp'[t].pc = "returned"

\* C17: get_clock_type never throws and returns the type the Clock's instance was
\* constructed with; get_clock_type, now(), ros_time_is_active and on_time_jump
\* leave the backend's table, the live handlers and the use_count of the instance
\* as they were.
C17_QueriesChangeNothing ==
  [][/\ \A b \in BackendIds :
          /\ (bState[b] = "unalloc" /\ bState'[b] = "valid") =>
               (last'.op = "Clock" /\ bType'[b] = last'.type)
          /\ bState[b] # "unalloc" => bType'[b] = bType[b]
     /\ (last' # last /\ last'.op = "get_clock_type") =>
          /\ last'.err = "none"
          /\ last'.b # NullRef /\ ClocksOf(last'.b) # {}
          /\ last'.type = bType[last'.b]
     /\ (QueryStep \/ DispatchStep) =>
          /\ entries' = entries /\ strong' = strong
          /\ hState' = hState /\ tokRefs' = tokRefs
          /\ clockState' = clockState /\ rcl_clock_' = rcl_clock_
          /\ bState' = bState]_vars

\* C17 witness: get_clock_type answered for a system-time Clock that has a
\* registration, after a jump was dispatched to its handler
C17_Witness ==
  \E t \in ThreadIds :
    /\ last.op = "get_clock_type" /\ last.type = "RCL_SYSTEM_TIME"
    /\ last.b # NullRef /\ entries[last.b] # {} /\ strong[last.b] = 1
    /\ disp[t].pc = "returned" /\ disp[t].invoked # {}

\* C18: the handler is tied to the rcl_clock_t, not to the Clock it was obtained from:
\* while a token is held and some Clock aliases the instance, the handler is live and
\* its entry is in the backend's table, whichever Clocks were destroyed; and a
\* deleter that ran while a Clock aliases the instance has called the remove.
C18_ArmedWhileAnyCopyLives ==
  \A h \in HandlerIds :
    (hState[h] # "none" /\ ClocksOf(weak_clock[h]) # {}) =>
      /\ tokRefs[h] >= 1 => (hState[h] = "live" /\ h \in entries[weak_clock[h]])
      /\ dpc[h] \in {"delete", "exit", "done"} => removeCalls[h] = 1

\* C18 witness: the Clock the token was obtained from is destroyed, a copy of it is
\* alive, the token is held and the handler is still armed
C18_Witness ==
  \E h \in HandlerIds :
    /\ clockState[FirstClock] = "destroyed"
    /\ tokRefs[h] >= 1 /\ hState[h] = "live"
    /\ ClocksOf(weak_clock[h]) # {}
    /\ h \in entries[weak_clock[h]]

\* the post-callback (pre-callback) invocations of handler h for the present event
PostsOf(h) == SelectSeq(jump.log[h], LAMBDA e : e.cb = "post")
PresOf(h) == SelectSeq(jump.log[h], LAMBDA e : e.cb = "pre")

\* handler h was armed on the backend of the event when it began and still is
ArmedThroughout(h) ==
  /\ h \in jump.start /\ h \in entries[jump.b]
  /\ hState[h] = "live" /\ tokRefs[h] >= 1

\* C12: the backend holds for a handler the threshold it was registered with; for
\* one forward jump the post-callback of a registered handler is invoked not at all
\* when the jump is below the threshold and exactly once when it is at least the
\* threshold, and it is handed the delta of the jump the backend delivered.
C12_PostGatedByThreshold ==
  /\ \A h \in HandlerIds :
       hState[h] = "live" =>
         /\ armed_threshold[h] = notice_threshold[h]
         /\ Len(PostsOf(h)) <= 1
         /\ \A i \in DOMAIN jump.log[h] :
              jump.log[h][i].cb = "post" =>
                /\ jump.log[h][i].delta = jump.delta
                /\ jump.delta >= notice_threshold[h]
  /\ jump.phase = "done" =>
       \A h \in HandlerIds :
         (ArmedThroughout(h) /\ post_callback[h]) =>
           Len(PostsOf(h)) = (IF jump.delta >= notice_threshold[h] THEN 1 ELSE 0)

\* C12 witness: a handler registered with a threshold above zero was delivered a jump
\* of its threshold, and its post-callback ran once with that delta
C12_Witness ==
  \E h \in HandlerIds :
    /\ jump.phase = "done" /\ ArmedThroughout(h) /\ post_callback[h]
    /\ notice_threshold[h] > 0 /\ jump.delta = notice_threshold[h]
    /\ PostsOf(h) = <<[cb |-> "post", delta |-> jump.delta]>>

\* C12 witness of the other case: a jump below the threshold was delivered and the
\* post-callback did not run
C12_BelowThreshold ==
  \E h \in HandlerIds :
    /\ jump.phase = "done" /\ ArmedThroughout(h) /\ post_callback[h]
    /\ jump.delta < notice_threshold[h] /\ PostsOf(h) = <<>>

\* within one event the invocations of a handler are a pre-callback then a
\* post-callback, each at most once
PreThenPost(h) ==
  /\ Len(PresOf(h)) <= 1 /\ Len(PostsOf(h)) <= 1
  /\ \A i, j \in DOMAIN jump.log[h] :
       i < j => (jump.log[h][i].cb = "pre" /\ jump.log[h][j].cb = "post")

C15_PreBelowThreshold ==
  \E h \in HandlerIds :
    /\ jump.phase = "done" /\ ArmedThroughout(h) /\ pre_callback[h]
    /\ jump.delta < notice_threshold[h]
    /\ Len(jump.log[h]) = 1 /\ jump.log[h][1].cb = "pre"

\* a step of the deleter of handler h
DeleterStep(h) == dpc[h] \in {"lock", "remove", "delete", "exit"} /\ dpc'[h] # dpc[h]

\* a step that leaves handler h2 as it is: its allocation, its members, its tokens
HandlerKept(h2) ==
  /\ hState'[h2] = hState[h2] /\ tokRefs'[h2] = tokRefs[h2]
  /\ pre_callback'[h2] = pre_callback[h2] /\ post_callback'[h2] = post_callback[h2]
  /\ notice_threshold'[h2] = notice_threshold[h2] /\ weak_clock'[h2] = weak_clock[h2]
  /\ dpc'[h2] = dpc[h2]

\* a registration gives a handler that is none of those there are, whatever their
\* callbacks and thresholds, and arms it beside the others
FreshHandlers ==
  \A h \in HandlerIds :
    (hState[h] = "none" /\ hState'[h] = "live") =>
      /\ last'.op = "create_jump_callback" /\ last'.h = h
      /\ \A b \in BackendIds : h \notin entries[b]
      /\ \A b \in BackendIds :
           entries'[b] = (IF b = weak_clock'[h] THEN entries[b] \cup {h} ELSE entries[b])
      /\ \A h2 \in HandlerIds \ {h} : HandlerKept(h2)

\* a call of on_time_jump uses the callbacks of the handler it was called for, and
\* leaves the calls of the other threads alone
OwnCallbacksOnly ==
  \A t \in ThreadIds :
    (disp[t].pc = "called" /\ disp'[t].pc = "returned") =>
      /\ disp'[t].target = disp[t].h /\ disp'[t].h = disp[t].h
      /\ \A t2 \in ThreadIds \ {t} : disp'[t2] = disp[t2]
      /\ \A h2 \in HandlerIds : HandlerKept(h2)
      /\ entries' = entries

\* C16 as stated: two registrations with the same callbacks and threshold give two
\* handlers; a call of on_time_jump for a handler invokes the callbacks of that
\* handler alone, other calls running at the same time or not; and the release of a
\* token takes the entry of its own handler out of the table and no other.
C16_HandlersIndependent ==
  [][/\ FreshHandlers
     /\ OwnCallbacksOnly
     /\ \A h \in HandlerIds :
          DeleterStep(h) =>
            \A h2 \in HandlerIds \ {h} :
              /\ HandlerKept(h2)
              /\ \A b \in BackendIds : h2 \in entries[b] => h2 \in entries'[b]]_vars

\* C16 amended: as stated, except that the release of a token that ends after the
\* last Clock of the instance was destroyed finalizes the instance, which drops
\* every entry: the entries of other handlers stay while a Clock aliases the
\* instance.
C16_IndependentWhileClockLives ==
  [][/\ FreshHandlers
     /\ OwnCallbacksOnly
     /\ \A h \in HandlerIds :
          DeleterStep(h) =>
            \A h2 \in HandlerIds \ {h} :
              /\ HandlerKept(h2)
              /\ \A b \in BackendIds :
                   (h2 \in entries[b] /\ h2 \notin entries'[b]) =>
                     (ClocksOf(b) = {} /\ bState[b] = "valid"
                        /\ bState'[b] = "finalized")]_vars

\* two handlers with the same callbacks and threshold armed on the same instance
Twins(h1, h2) ==
  /\ h1 # h2 /\ hState[h1] = "live" /\ hState[h2] = "live"
  /\ pre_callback[h1] = pre_callback[h2] /\ post_callback[h1] = post_callback[h2]
  /\ notice_threshold[h1] = notice_threshold[h2]
  /\ weak_clock[h1] = weak_clock[h2]
  /\ {h1, h2} \subseteq entries[weak_clock[h1]]

\* C16 witness: two such handlers, a call for one has returned having invoked its
\* callback while a call for the other is running
C16_Witness ==
  \E h1, h2 \in HandlerIds, t1, t2 \in ThreadIds :
    /\ Twins(h1, h2) /\ t1 # t2
    /\ disp[t1].pc = "returned" /\ disp[t1].h = h1 /\ disp[t1].target = h1
    /\ disp[t1].invoked # {}
    /\ disp[t2].pc = "called" /\ disp[t2].h = h2

\* C16 witness of the release: one handler was deregistered and freed, the other
\* is still armed and its token held
C16_OtherStaysArmed ==
  \E h1, h2 \in HandlerIds :
    /\ dpc[h1] = "done" /\ removeCalls[h1] = 1 /\ h1 \notin entries[weak_clock[h1]]
    /\ hState[h2] = "live" /\ tokRefs[h2] >= 1 /\ weak_clock[h2] = weak_clock[h1]
    /\ h2 \in entries[weak_clock[h2]]

====
